---------------------------- MODULE Spec2Model ----------------------------
(***************************************************************************)
(* The keyless session transfer of g3bench                                 *)
(* (src/g3bench/src/target/keyless/cloudflare/connection.rs): one shared   *)
(* state, a writer task, a reader task, a janitor task, the start-up       *)
(* future WaitWriteWaker, the SendHandle and the SendRequest futures.      *)
(*                                                                         *)
(* Tasks are tokio tasks: a task is polled when it is notified, the        *)
(* notification is cleared when the poll starts, and a wake that arrives   *)
(* while the task is being polled makes it polled again.  A poll is split  *)
(* into steps at its accesses to the shared state, so that the other       *)
(* tasks interleave with it as threads of a multi-threaded runtime do.     *)
(*                                                                         *)
(* Time is kept relative: an entry carries its age (created.elapsed()),    *)
(* the janitor's interval and the writer's sleep carry the time left.      *)
(* An interval tick is punctual: time does not pass while one is due.      *)
(***************************************************************************)
EXTENDS Integers, Sequences, FiniteSets, TLC

\* ------------------------------------------------------------- bounds
NumFuts == 3        \* SendRequest futures, each driven by a task of its own
MaxId == 4          \* correlation ids 0 .. MaxId-1 (no wrap-around)
QueueCap == 1       \* capacity of req_queue (1024 in the source)
BufLen == 2         \* bytes of a serialized request
RequestTimeout == 1 \* request_timeout, in units of time

Futs == 1 .. NumFuts
\* the futures of the two-submitter specifications
Submitters == 1 .. (NumFuts - 1)
Ids == 0 .. (MaxId - 1)

NoData == -1        \* Option::None of a response; the empty result
Unresolved == -2    \* the future has not returned Ready
NoWaker == 0        \* Option::None of a waker
NoId == -1          \* no id minted yet
NoSleep == -1       \* shutdown_wait = None
AgeCap == 2 * RequestTimeout + 1

\* ResponseValue { data, waker, created }; scans counts the janitor scans
\* the entry has outlived (history, read by no action).
NoEntry == [in |-> FALSE, data |-> NoData, waker |-> NoWaker, age |-> 0, scans |-> 0]
\* (mutant) the insert stores nothing
LostEntry(w) == NoEntry

NewEntry(w) == [in |-> TRUE, data |-> NoData, waker |-> w, age |-> 0, scans |-> 0]
NoRequest == [id |-> -1, waker |-> NoWaker]

VARIABLES
    \* SharedState
    write_waker,      \* write_waker holds Some(waker)
    next_req_id,
    req_queue,        \* sequence of [id, waker]
    q_closed,         \* req_queue.is_closed()
    rsp_table,        \* id -> entry
    error,            \* "none", "write" (WriteFailed), "rsp" (response error)
    \* UnderlyingWriterState and the writer task
    init,
    current_request,
    current_offset,
    wire,             \* the bytes handed to the write half: [id, pos] each (history)
    shutdown_wait,    \* NoSleep, or the time left of the sleep
    do_flush,
    wpc,              \* "idle" (returned Pending), "loop", "empty", "fail", "done"
    wnotified,        \* the writer task is scheduled
    wio,              \* I/O readiness the write half will signal: "none", "write", "flush"
    dirty,            \* bytes written and not yet flushed
    shut,             \* poll_shutdown was called: "no", "grace", "fail"
    \* WaitWriteWaker / SendHandle
    handle,           \* "none", "alive", "dropped"
    at_drop,          \* the ids in flight at the drop and the time since (history)
    \* SendRequest futures
    fstate,           \* "none", "new", "retry", "pushed", "wait", "done", "dropped"
    req_id,           \* the id set in the request (req.set_id)
    first_id,         \* the id minted at the first poll (history)
    rsp_id,
    result,
    notified,         \* the future's task is scheduled
    owner,            \* id -> the future whose push of that id was accepted (history)
    \* reader task and the peer
    rpc,              \* "read", "done"
    rwake,            \* the waker taken, to be signalled after the lock is released
    peer,             \* id -> "none", "got" (request received), "sent", "read"
    \* janitor task
    janLeft           \* time left to the next interval tick

shared == <<write_waker, next_req_id, req_queue, q_closed, rsp_table, error>>
wvars == <<init, current_request, current_offset, wire, shutdown_wait, do_flush, wpc,
           wnotified, wio, dirty, shut>>
fvars == <<fstate, req_id, first_id, rsp_id, result, notified, owner>>
rvars == <<rpc, rwake, peer>>
vars == <<shared, wvars, handle, at_drop, fvars, rvars, janLeft>>

\* ------------------------------------------------------------- helpers
Alive(f) == fstate[f] \in {"new", "retry", "pushed", "wait"}

\* Waker::wake on the wakers of the futures in ws
WakeAll(ws) == [f \in Futs |-> notified[f] \/ (f \in ws /\ Alive(f))]

\* (mutant) a wake signalled while the writer task is being polled is lost
WakeWriterIfIdle == IF wpc = "idle" THEN TRUE ELSE wnotified

\* Waker::wake on the writer task's waker
WakeWriter == IF wpc = "done" THEN wnotified ELSE TRUE

QueueWakers == {req_queue[i].waker : i \in 1 .. Len(req_queue)}
TableWakers == {rsp_table[k].waker : k \in {i \in Ids : rsp_table[i].in}} \ {NoWaker}

\* SharedState::clean_pending_req: the wakers it signals
CleanWakers == QueueWakers \cup TableWakers

EmptyTable == [k \in Ids |-> NoEntry]

\* requests the peer has received whose response the reader has not read
InFlight == {k \in Ids : peer[k] \in {"got", "sent"}}

NoDrop == [inflight |-> {}, elapsed |-> 0]

\* more than request_timeout after the drop the history is no longer kept
Forgotten == [inflight |-> {}, elapsed |-> RequestTimeout + 1]

Init ==
    /\ write_waker = FALSE
    /\ next_req_id = 0
    /\ req_queue = <<>>
    /\ q_closed = FALSE
    /\ rsp_table = EmptyTable
    /\ error = "none"
    /\ init = TRUE
    /\ current_request = NoRequest
    /\ current_offset = 0
    /\ wire = <<>>
    /\ shutdown_wait = NoSleep
    /\ do_flush = FALSE
    /\ wpc = "idle"
    /\ wnotified = TRUE
    /\ wio = "none"
    /\ dirty = FALSE
    /\ shut = "no"
    /\ handle = "none"
    /\ at_drop = NoDrop
    /\ fstate = [f \in Futs |-> "none"]
    /\ req_id = [f \in Futs |-> 0]
    /\ first_id = [f \in Futs |-> NoId]
    /\ rsp_id = [f \in Futs |-> 0]
    /\ result = [f \in Futs |-> Unresolved]
    /\ notified = [f \in Futs |-> FALSE]
    /\ owner = [k \in Ids |-> 0]
    /\ rpc = "read"
    /\ rwake = NoWaker
    /\ peer = [k \in Ids |-> "none"]
    /\ janLeft = RequestTimeout


\* ------------------------------------------------------- start-up, handle
\* (mutant) the handle is returned without looking at write_waker
WaitPollEager ==
    /\ handle = "none"
    /\ handle' = "alive"
    /\ UNCHANGED <<shared, wvars, at_drop, fvars, rvars, janLeft>>

\* WaitWriteWaker::poll: Ready(SendHandle) once write_waker is Some; otherwise
\* it wakes itself and returns Pending.
WaitPoll ==
    /\ handle = "none"
    /\ handle' = IF write_waker THEN "alive" ELSE "none"
    /\ UNCHANGED <<shared, wvars, at_drop, fvars, rvars, janLeft>>

\* SendHandle::send_request: a new SendRequest, first polled by its task.
SendRequestNew(f) ==
    /\ handle = "alive"
    /\ fstate[f] = "none"
    /\ \A g \in Futs : g < f => fstate[g] # "none"
    /\ fstate' = [fstate EXCEPT ![f] = "new"]
    /\ notified' = [notified EXCEPT ![f] = TRUE]
    /\ UNCHANGED <<shared, wvars, handle, at_drop, req_id, first_id, rsp_id, result, owner, rvars,
                   janLeft>>

\* Drop for SendHandle
HandleDrop ==
    /\ handle = "alive"
    /\ handle' = "dropped"
    /\ at_drop' = [inflight |-> InFlight, elapsed |-> 0]
    /\ q_closed' = TRUE
    /\ write_waker' = FALSE
    /\ wnotified' = IF write_waker THEN WakeWriter ELSE wnotified
    /\ UNCHANGED <<next_req_id, req_queue, rsp_table, error, init, current_request,
                   current_offset, wire, shutdown_wait, do_flush, wpc, wio, dirty, shut,
                   fvars, rvars, janLeft>>

\* ------------------------------------------------------------ SendRequest
\* first_id after a poll of f that mints next_req_id
FirstMinted(f) ==
    IF first_id[f] = NoId THEN [first_id EXCEPT ![f] = next_req_id] ELSE first_id

\* Futures that still hold their request: each of them mints one more id.
Unaccepted == {f \in Futs : fstate[f] \in {"none", "new", "retry"}}

\* SendHandle::is_closed
is_closed == q_closed

\* (mutant) a failure path leaves the queue as it is
LeftOpenByFailure == q_closed

\* req_queue.close() on a failure path: the closed flag afterwards
ClosedByFailure == TRUE

\* (mutant) push does not look at the closed flag
PushOutcomeIgnoresClose == IF Len(req_queue) >= QueueCap THEN "full" ELSE "ok"

\* (mutant) a queue without a capacity: push never reports Full
PushOutcomeUnbounded == IF q_closed THEN "closed" ELSE "ok"

\* ConcurrentQueue::push
PushOutcome ==
    IF q_closed THEN "closed"
    ELSE IF Len(req_queue) >= QueueCap THEN "full"
    ELSE "ok"

HoldsRequest(f) == fstate[f] \in {"new", "retry"} /\ notified[f]

\* poll with the request present, push accepted: the request is in the queue;
\* the poll goes on in FutureWakeWriter.
FuturePushOk(f) ==
    /\ HoldsRequest(f)
    /\ PushOutcome = "ok"
    /\ next_req_id < MaxId
    /\ next_req_id' = next_req_id + 1
    /\ req_id' = [req_id EXCEPT ![f] = next_req_id]
    /\ first_id' = FirstMinted(f)
    /\ req_queue' = Append(req_queue, [id |-> next_req_id, waker |-> f])
    /\ owner' = [owner EXCEPT ![next_req_id] = f]
    /\ fstate' = [fstate EXCEPT ![f] = "pushed"]
    /\ notified' = [notified EXCEPT ![f] = FALSE]
    /\ UNCHANGED <<write_waker, q_closed, rsp_table, error, wvars, handle, at_drop, rsp_id,
                   result, rvars, janLeft>>

\* (mutant) the id of the accepted request is not kept: rsp_id stays as it was
AcceptedIdNotKept(f) == rsp_id[f]

\* The id the future keeps for its response
AcceptedId(f) == req_id[f]

\* ... Ok(_): writer_waker.wake_by_ref(); rsp_id = id; Pending
FutureWakeWriter(f) ==
    /\ fstate[f] = "pushed"
    /\ wnotified' = WakeWriter
    /\ rsp_id' = [rsp_id EXCEPT ![f] = AcceptedId(f)]
    /\ fstate' = [fstate EXCEPT ![f] = "wait"]
    /\ UNCHANGED <<shared, init, current_request, current_offset, wire, shutdown_wait,
                   do_flush, wpc, wio, dirty, shut, handle, at_drop, req_id, first_id,
                   result, notified,
                   owner, rvars, janLeft>>

\* (mutant) the waker signalled on Full is the one at the head of the queue
FullWakerHead(f) == Head(req_queue).waker

\* The waker signalled when the push is rejected as full: the one handed back
\* in PushError::Full((req, waker)), which is the pair the future just built.
FullWaker(f) == f

\* poll with the request present, queue full: the id is spent, the request is
\* kept.  The number of fruitless polls is bounded by the ids that are left.
FuturePushFull(f) ==
    /\ HoldsRequest(f)
    /\ PushOutcome = "full"
    /\ next_req_id + Cardinality(Unaccepted) < MaxId
    /\ next_req_id' = next_req_id + 1
    /\ req_id' = [req_id EXCEPT ![f] = next_req_id]
    /\ first_id' = FirstMinted(f)
    /\ fstate' = [fstate EXCEPT ![f] = "retry"]
    /\ notified' = [g \in Futs |->
                      IF g = FullWaker(f) THEN TRUE
                      ELSE IF g = f THEN FALSE ELSE notified[g]]
    /\ UNCHANGED <<write_waker, req_queue, q_closed, rsp_table, error, wvars, handle, at_drop,
                   rsp_id, result, owner, rvars, janLeft>>

\* poll with the request present, queue closed: Ready(None)
FuturePushClosed(f) ==
    /\ HoldsRequest(f)
    /\ PushOutcome = "closed"
    /\ next_req_id < MaxId
    /\ next_req_id' = next_req_id + 1
    /\ req_id' = [req_id EXCEPT ![f] = next_req_id]
    /\ first_id' = FirstMinted(f)
    /\ fstate' = [fstate EXCEPT ![f] = "done"]
    /\ result' = [result EXCEPT ![f] = NoData]
    /\ notified' = [notified EXCEPT ![f] = FALSE]
    /\ UNCHANGED <<write_waker, req_queue, q_closed, rsp_table, error, wvars, handle, at_drop,
                   rsp_id, owner, rvars, janLeft>>

\* (mutant) the poll takes whatever payload the table holds
TakeAnyResponse(f) ==
    IF \E k \in Ids : rsp_table[k].in /\ rsp_table[k].data # NoData
    THEN CHOOSE k \in Ids : rsp_table[k].in /\ rsp_table[k].data # NoData
    ELSE NoData

\* rsp_table.remove(&rsp_id).and_then(|s| s.data)
TakeResponse(f) ==
    IF rsp_table[rsp_id[f]].in THEN rsp_table[rsp_id[f]].data ELSE NoData

\* poll with the request gone: Ready(r), whatever the entry holds
PollResponse(f) ==
    /\ fstate[f] = "wait"
    /\ result' = [result EXCEPT ![f] = TakeResponse(f)]
    /\ rsp_table' = [rsp_table EXCEPT ![rsp_id[f]] = NoEntry]
    /\ fstate' = [fstate EXCEPT ![f] = "done"]
    /\ notified' = [notified EXCEPT ![f] = FALSE]
    /\ UNCHANGED <<write_waker, next_req_id, req_queue, q_closed, error, wvars, handle, at_drop,
                   req_id, first_id, rsp_id, owner, rvars, janLeft>>

\* the task polls the future because it was woken
FuturePollWait(f) == notified[f] /\ PollResponse(f)

\* the future is polled though nobody woke it (Future::poll allows it)
FutureSpuriousPoll(f) == ~notified[f] /\ PollResponse(f)

\* the SendRequest is dropped before it resolved
FutureDrop(f) ==
    /\ fstate[f] \in {"retry", "wait"}
    /\ fstate' = [fstate EXCEPT ![f] = "dropped"]
    /\ notified' = [notified EXCEPT ![f] = FALSE]
    /\ UNCHANGED <<shared, wvars, handle, at_drop, req_id, first_id, rsp_id, result, owner, rvars,
                   janLeft>>


\* ----------------------------------------------------------------- writer
\* UnderlyingWriterState::poll_write, entered by a poll of the writer task:
\* the first poll publishes the waker; do_flush starts false in every poll.
WriterBegin ==
    /\ wpc = "idle"
    /\ wnotified
    /\ wnotified' = FALSE
    /\ wpc' = "loop"
    /\ do_flush' = FALSE
    /\ wio' = "none"
    /\ init' = FALSE
    /\ write_waker' = IF init THEN TRUE ELSE write_waker
    /\ UNCHANGED <<next_req_id, req_queue, q_closed, rsp_table, error, current_request,
                   current_offset, wire, shutdown_wait, dirty, shut, handle, at_drop,
                   fvars, rvars,
                   janLeft>>

\* (mutant) the write starts at the head of the buffer whatever the offset
SliceFromStart(o, n) == [i \in 1 .. n |-> i]

\* the first n bytes of &current_buffer[current_offset..], as positions in
\* the buffer (counted from 1)
Slice(o, n) == [i \in 1 .. n |-> o + i]

Writing ==
    /\ wpc = "loop"
    /\ current_request # NoRequest
    /\ current_offset < BufLen

\* poll_write returned Ready(Ok(n)); the peer has the request once its last
\* byte is written.
WriterWriteOk(n) ==
    /\ Writing
    /\ n \in 1 .. (BufLen - current_offset)
    /\ current_offset' = current_offset + n
    /\ wire' = wire \o [i \in 1 .. n |->
                         [id |-> current_request.id, pos |-> Slice(current_offset, n)[i]]]
    /\ do_flush' = TRUE
    /\ dirty' = TRUE
    /\ peer' = IF current_offset + n = BufLen
               THEN [peer EXCEPT ![current_request.id] = "got"]
               ELSE peer
    /\ UNCHANGED <<shared, init, current_request, shutdown_wait, wpc, wnotified, wio,
                   shut, handle, at_drop, fvars, rpc, rwake, janLeft>>

\* poll_write returned Pending: the request is put back, the poll returns
WriterWritePending ==
    /\ Writing
    /\ wpc' = "idle"
    /\ wio' = "write"
    /\ do_flush' = FALSE
    /\ UNCHANGED <<shared, init, current_request, current_offset, wire, shutdown_wait,
                   wnotified, dirty, shut, handle, at_drop, fvars, rvars, janLeft>>

\* poll_write returned Ready(Err(e)): close the queue, wake the caller of the
\* current request, clean_pending_req; set_req_error follows in WriterSetError.
WriterWriteErr ==
    /\ Writing
    /\ q_closed' = ClosedByFailure
    /\ notified' = WakeAll({current_request.waker} \cup CleanWakers)
    /\ req_queue' = <<>>
    /\ rsp_table' = EmptyTable
    /\ current_request' = NoRequest
    /\ wpc' = "fail"
    /\ do_flush' = FALSE
    /\ UNCHANGED <<write_waker, next_req_id, error, init, current_offset, wire, shutdown_wait,
                   wnotified, wio, dirty, shut, handle, at_drop, fstate, req_id,
                   first_id, rsp_id, result,
                   owner, rvars, janLeft>>

\* the error the writer publishes
WriterError == "write"

\* set_req_error(e); poll_shutdown; Ready(())
WriterSetError ==
    /\ wpc = "fail"
    /\ error' = WriterError
    /\ shut' = "fail"
    /\ wpc' = "done"
    /\ wnotified' = FALSE
    /\ UNCHANGED <<write_waker, next_req_id, req_queue, q_closed, rsp_table, init,
                   current_request, current_offset, wire, shutdown_wait, do_flush, wio, dirty,
                   handle, at_drop, fvars, rvars, janLeft>>

\* the whole buffer is written: the response entry is inserted
WriterInsert ==
    /\ wpc = "loop"
    /\ current_request # NoRequest
    /\ current_offset >= BufLen
    /\ rsp_table' = [rsp_table EXCEPT ![current_request.id] = NewEntry(current_request.waker)]
    /\ current_request' = NoRequest
    /\ UNCHANGED <<write_waker, next_req_id, req_queue, q_closed, error, init,
                   current_offset, wire, shutdown_wait, do_flush, wpc, wnotified, wio, dirty,
                   shut, handle, at_drop, fvars, rvars, janLeft>>

Popping == wpc = "loop" /\ current_request = NoRequest

\* req_queue.pop() = Ok: a closed queue still hands out what it holds
WriterPopOk ==
    /\ Popping
    /\ req_queue # <<>>
    /\ current_offset' = 0
    /\ current_request' = Head(req_queue)
    /\ wire' = wire
    /\ req_queue' = Tail(req_queue)
    /\ UNCHANGED <<write_waker, next_req_id, q_closed, rsp_table, error, init,
                   shutdown_wait, do_flush, wpc, wnotified, wio, dirty, shut, handle, at_drop,
                   fvars, rvars, janLeft>>

\* req_queue.pop() = Err(PopError::Empty); what the writer does with it
\* follows in a step of its own, after whatever the other tasks do meanwhile.
WriterPopEmpty ==
    /\ Popping
    /\ req_queue = <<>>
    /\ ~q_closed
    /\ wpc' = "empty"
    /\ UNCHANGED <<shared, init, current_request, current_offset, wire, shutdown_wait,
                   do_flush, wnotified, wio, dirty, shut, handle, at_drop, fvars, rvars,
                   janLeft>>

PopEmpty == wpc = "empty"

\* PopError::Empty, nothing written in this poll: Pending
WriterPopEmptyIdle ==
    /\ PopEmpty
    /\ ~do_flush
    /\ wpc' = "idle"
    /\ UNCHANGED <<shared, init, current_request, current_offset, wire, shutdown_wait,
                   do_flush, wnotified, wio, dirty, shut, handle, at_drop, fvars, rvars, janLeft>>

\* PopError::Empty, poll_flush returned Ready(Ok): Pending
WriterFlushOk ==
    /\ PopEmpty
    /\ do_flush
    /\ dirty' = FALSE
    /\ do_flush' = FALSE
    /\ wpc' = "idle"
    /\ UNCHANGED <<shared, init, current_request, current_offset, wire, shutdown_wait,
                   wnotified, wio, shut, handle, at_drop, fvars, rvars, janLeft>>

\* PopError::Empty, poll_flush returned Pending: ready! returns Pending
WriterFlushPending ==
    /\ PopEmpty
    /\ do_flush
    /\ do_flush' = FALSE
    /\ wio' = "flush"
    /\ wpc' = "idle"
    /\ UNCHANGED <<shared, init, current_request, current_offset, wire, shutdown_wait,
                   wnotified, dirty, shut, handle, at_drop, fvars, rvars, janLeft>>

\* PopError::Empty, poll_flush returned Ready(Err(e)): close the queue,
\* clean_pending_req; set_req_error follows in WriterSetError.
WriterFlushErr ==
    /\ PopEmpty
    /\ do_flush
    /\ q_closed' = ClosedByFailure
    /\ notified' = WakeAll(CleanWakers)
    /\ req_queue' = <<>>
    /\ rsp_table' = EmptyTable
    /\ wpc' = "fail"
    /\ do_flush' = FALSE
    /\ UNCHANGED <<write_waker, next_req_id, error, init, current_request,
                   current_offset, wire, shutdown_wait, wnotified, wio, dirty, shut,
                   handle, at_drop,
                   fstate, req_id, first_id, rsp_id, result, owner, rvars, janLeft>>

\* the sleep polled in the Closed branch: the one kept, or a new one
GraceSleep == IF shutdown_wait = NoSleep THEN RequestTimeout ELSE shutdown_wait

\* (mutant) a closed queue reports Closed whatever it still holds
PopClosedEarly == q_closed

\* req_queue.pop() = Err(PopError::Closed): the queue is closed and empty
PopClosed == req_queue = <<>> /\ q_closed

\* PopError::Closed: take_write_waker, then the grace sleep is polled;
\* Ready shuts the write half down, Pending keeps the sleep.
WriterPopClosed ==
    /\ Popping
    /\ PopClosed
    /\ write_waker' = FALSE
    /\ do_flush' = FALSE
    /\ IF GraceSleep = 0
       THEN /\ shut' = "grace"
            /\ wpc' = "done"
            /\ wnotified' = FALSE
            /\ shutdown_wait' = NoSleep
       ELSE /\ shutdown_wait' = GraceSleep
            /\ wpc' = "idle"
            /\ UNCHANGED <<shut, wnotified>>
    /\ UNCHANGED <<next_req_id, req_queue, q_closed, rsp_table, error, init,
                   current_request, current_offset, wire, wio, dirty, handle, at_drop,
                   fvars, rvars,
                   janLeft>>

\* the write half becomes ready again and wakes the writer task
IoReady ==
    /\ wio # "none"
    /\ wio' = "none"
    /\ wnotified' = WakeWriter
    /\ UNCHANGED <<shared, init, current_request, current_offset, wire, shutdown_wait,
                   do_flush, wpc, dirty, shut, handle, at_drop, fvars, rvars, janLeft>>

\* the grace sleep has elapsed and wakes the writer task
SleepFire ==
    /\ shutdown_wait = 0
    /\ wpc = "idle"
    /\ ~wnotified
    /\ wnotified' = TRUE
    /\ UNCHANGED <<shared, init, current_request, current_offset, wire, shutdown_wait,
                   do_flush, wpc, wio, dirty, shut, handle, at_drop, fvars, rvars, janLeft>>


\* ------------------------------------------------------------ peer, reader
\* the peer answers a request it has received, echoing its id
PeerAnswer(k) ==
    /\ peer[k] = "got"
    /\ peer' = [peer EXCEPT ![k] = "sent"]
    /\ UNCHANGED <<shared, wvars, handle, at_drop, fvars, rpc, rwake, janLeft>>

\* the peer sends a response for the same id once more
PeerDuplicate(k) ==
    /\ peer[k] = "read"
    /\ peer' = [peer EXCEPT ![k] = "sent"]
    /\ UNCHANGED <<shared, wvars, handle, at_drop, fvars, rpc, rwake, janLeft>>

AtRead == rpc = "read" /\ rwake = NoWaker

\* the key under which the reader looks a response up: r.id()
ReaderKey(k) == k

\* (mutant) the reader takes the waker and leaves the payload out
TakeWakerOnly(e, k) ==
    IF e.in /\ e.waker # NoWaker
    THEN [e EXCEPT !.waker = NoWaker]
    ELSE e

\* the entry after the reader has handled a response with id k for it
StoreResponse(e, k) ==
    IF e.in /\ e.waker # NoWaker
    THEN [e EXCEPT !.data = k, !.waker = NoWaker]
    ELSE e

\* KeylessResponse::read returned Ok(r): under the table lock, an entry that
\* still has its waker gets the response; the waker is signalled in ReaderWake.
ReaderRecv(k) ==
    /\ AtRead
    /\ peer[k] = "sent"
    /\ peer' = [peer EXCEPT ![k] = "read"]
    /\ rsp_table' = [rsp_table EXCEPT ![ReaderKey(k)] = StoreResponse(@, k)]
    /\ rwake' = IF rsp_table[ReaderKey(k)].in THEN rsp_table[ReaderKey(k)].waker ELSE NoWaker
    /\ UNCHANGED <<write_waker, next_req_id, req_queue, q_closed, error, wvars, handle, at_drop,
                   fvars, rpc, janLeft>>

\* drop(rsp_table_guard); waker.wake()
ReaderWake ==
    /\ rpc = "read"
    /\ rwake # NoWaker
    /\ notified' = WakeAll({rwake})
    /\ rwake' = NoWaker
    /\ UNCHANGED <<shared, wvars, handle, at_drop, fstate, req_id, first_id, rsp_id,
                   result, owner, rpc,
                   peer, janLeft>>

\* the error the reader publishes
ReaderError == "rsp"

\* KeylessResponse::read returned Err(e): close the queue, set_rsp_error,
\* clean_pending_req, wake the writer through the shared waker, break.
ReaderErr ==
    /\ AtRead
    /\ q_closed' = ClosedByFailure
    /\ error' = ReaderError
    /\ notified' = WakeAll(CleanWakers)
    /\ req_queue' = <<>>
    /\ rsp_table' = EmptyTable
    /\ write_waker' = FALSE
    /\ wnotified' = IF write_waker THEN WakeWriter ELSE wnotified
    /\ rpc' = "done"
    /\ UNCHANGED <<next_req_id, init, current_request, current_offset, wire, shutdown_wait,
                   do_flush, wpc, wio, dirty, shut, handle, at_drop, fstate, req_id,
                   first_id, rsp_id,
                   result, owner, rwake, peer, janLeft>>

\* ---------------------------------------------------------- janitor, time
\* (mutant) the janitor compares with one unit more than request_timeout
ExpiredLate(e) == e.age > RequestTimeout + 1

\* v.created.elapsed() > request_timeout
Expired(e) == e.age > RequestTimeout

Evicted == {k \in Ids : rsp_table[k].in /\ Expired(rsp_table[k])}

\* an interval tick: retain drops the expired entries and wakes their callers
JanitorTick ==
    /\ janLeft = 0
    /\ janLeft' = RequestTimeout
    /\ rsp_table' = [k \in Ids |->
                       IF k \in Evicted THEN NoEntry
                       ELSE IF rsp_table[k].in
                            THEN [rsp_table[k] EXCEPT !.scans = IF @ < 3 THEN @ + 1 ELSE @]
                            ELSE rsp_table[k]]
    /\ notified' = WakeAll({rsp_table[k].waker : k \in Evicted} \ {NoWaker})
    /\ UNCHANGED <<write_waker, next_req_id, req_queue, q_closed, error, wvars, handle, at_drop,
                   fstate, req_id, first_id, rsp_id, result, owner, rvars>>

Older(e) == IF e.in /\ e.age < AgeCap THEN [e EXCEPT !.age = @ + 1] ELSE e

\* one unit of time passes (not while an interval tick is due)
Tick ==
    /\ janLeft > 0
    /\ janLeft' = janLeft - 1
    /\ rsp_table' = [k \in Ids |-> Older(rsp_table[k])]
    /\ shutdown_wait' = IF shutdown_wait > 0 THEN shutdown_wait - 1 ELSE shutdown_wait
    /\ at_drop' = IF handle = "dropped" /\ at_drop.elapsed < RequestTimeout
                  THEN [at_drop EXCEPT !.elapsed = @ + 1]
                  ELSE IF handle = "dropped" THEN Forgotten ELSE at_drop
    /\ UNCHANGED <<write_waker, next_req_id, req_queue, q_closed, error, init,
                   current_request, current_offset, wire, do_flush, wpc, wnotified, wio,
                   dirty, shut, handle, fvars, rvars>>

\* ---------------------------------------------------------- specification
WriterStep ==
    \/ WriterBegin
    \/ \E n \in 1 .. BufLen : WriterWriteOk(n)
    \/ WriterWritePending
    \/ WriterInsert
    \/ WriterPopOk
    \/ WriterPopEmpty
    \/ WriterPopEmptyIdle
    \/ WriterFlushOk
    \/ WriterFlushPending
    \/ IoReady

WriterFailure ==
    \/ WriterWriteErr
    \/ WriterFlushErr
    \/ WriterSetError

FutureStep(f) ==
    \/ SendRequestNew(f)
    \/ FuturePushOk(f)
    \/ FutureWakeWriter(f)
    \/ FuturePushFull(f)
    \/ FuturePollWait(f)

ReaderStep ==
    \/ \E k \in Ids : PeerAnswer(k)
    \/ \E k \in Ids : ReaderRecv(k)
    \/ ReaderWake

\* the callers and the writer while the queue is open
Quiet(F) ==
    \/ WaitPoll
    \/ \E f \in F : FutureStep(f)
    \/ WriterStep

\* the session while the queue is open: no failure, no shutdown, no passage
\* of time
Core(F) ==
    \/ Quiet(F)
    \/ ReaderStep

\* what the futures and the writer do once the queue is closed
Closing(F) ==
    \/ \E f \in F : FuturePushClosed(f)
    \/ WriterPopClosed
    \/ SleepFire

Time ==
    \/ JanitorTick
    \/ Tick

Failure ==
    \/ WriterFailure
    \/ ReaderErr

\* Every activity of the session, with callers that poll a future when it was
\* woken and keep it until it resolves.
Next ==
    \/ Core(Submitters)
    \/ Closing(Submitters)
    \/ Time
    \/ Failure
    \/ HandleDrop

Spec == Init /\ [][Next]_vars


\* ================================================================ claims
Resolved(f) == fstate[f] = "done"
GotPayload(f) == Resolved(f) /\ result[f] # NoData

\* C1: a future that resolved with a response holds the response whose id is
\* the id it stored when its request was accepted, and that id was minted by
\* its own accepted push: it never holds the response of another request.
C1_Routing ==
    \A f \in Futs :
        GotPayload(f) => /\ result[f] = rsp_id[f]
                         /\ owner[result[f]] = f

\* two futures resolved with a response each, the later-created future having
\* been accepted first
C1_Witness ==
    /\ GotPayload(1) /\ GotPayload(2)
    /\ rsp_id[2] < rsp_id[1]


\* ----------------------------------------------------------------- C2
\* Time passes only while no request the peer holds, or has answered with the
\* response still on its way, has an entry about to exceed request_timeout:
\* the peer answers, and the answer reaches the reader, before that.
AnsweredInTime ==
    \A k \in Ids :
        (peer[k] \in {"got", "sent"} /\ rsp_table[k].in)
            => rsp_table[k].age < RequestTimeout

DeliverTick == AnsweredInTime /\ Tick

DeliverNext ==
    \/ Core(Submitters)
    \/ JanitorTick
    \/ DeliverTick

DeliverFair ==
    /\ WF_vars(WriterStep)
    /\ WF_vars(ReaderStep)
    /\ WF_vars(JanitorTick)
    /\ WF_vars(WaitPoll)
    /\ \A f \in Submitters : WF_vars(FutureStep(f))

\* No failure, no dropped handle, no dropped future, every poll of a future
\* caused by a wake, a peer that answers every request in time, and fair
\* scheduling of the tasks.
SpecDeliver == Init /\ [][DeliverNext]_vars /\ DeliverFair

\* C2: with no failure, no drop and a peer that answers every request in
\* time, a future never resolves with an empty result: it resolves with the
\* response that carries its id.
C2_Delivery ==
    \A f \in Futs : Resolved(f) => result[f] = rsp_id[f]


\* ----------------------------------------------------------------- C3
\* The session without failure or shutdown, with callers that may poll a
\* waiting future though nobody woke it.
RepollNext ==
    \/ Core(Submitters)
    \/ Time
    \/ \E f \in Submitters : FutureSpuriousPoll(f)

SpecRepoll == Init /\ [][RepollNext]_vars

EntryWithoutPayload(f) ==
    /\ fstate[f] = "wait"
    /\ rsp_table[rsp_id[f]].in
    /\ rsp_table[rsp_id[f]].data = NoData

\* C3: a poll of an accepted future whose entry exists without a payload
\* returns Pending and leaves the entry, with its waker, in the table.
C3_SpuriousRepoll ==
    [][\A f \in Futs :
          (EntryWithoutPayload(f) /\ PollResponse(f))
              => /\ fstate'[f] = "wait"
                 /\ rsp_table'[rsp_id[f]] = rsp_table[rsp_id[f]]]_vars

\* ----------------------------------------------------------------- C4
WriterFailed == wpc = "done" /\ shut = "fail"
Resolves(f) == ~Resolved(f) /\ fstate'[f] = "done"

\* C4: once the writer has failed on a write or flush error, the error slot
\* holds the write failure and every future that resolves does so with an
\* empty result.
C4_WriteFailureFatal ==
    [][WriterFailed =>
          /\ error' = "write"
          /\ \A f \in Futs : Resolves(f) => result'[f] = NoData]_vars

\* ----------------------------------------------------------------- C5
ReaderFailed == rpc = "done"
ReaderFails == rpc = "read" /\ rpc' = "done"

\* C5: the reader's failure wakes every future that waits for a response,
\* also one whose request the writer still holds; from then on the error slot
\* holds the response failure and every future that resolves does so with an
\* empty result.
C5_ReadFailureFatal ==
    [][/\ ReaderFails => \A f \in Futs : fstate[f] = "wait" => notified'[f]
       /\ ReaderFailed =>
             /\ error' = "rsp"
             /\ \A f \in Futs : Resolves(f) => result'[f] = NoData]_vars

\* ----------------------------------------------------------------- C6
\* C6: once the error slot holds an error, no later failure replaces it.
C6_ErrorWriteOnce == [][error # "none" => error' = error]_vars


\* ----------------------------------------------------------------- C7
\* A peer that never responds; no failure, no shutdown, no drop.
TimeoutNext ==
    \/ Quiet(Submitters)
    \/ Time

TimeoutFair ==
    /\ WF_vars(Tick)
    /\ WF_vars(JanitorTick)
    /\ \A f \in Submitters : WF_vars(FuturePollWait(f))

SpecTimeout == Init /\ [][TimeoutNext]_vars /\ TimeoutFair

InTable(f) == fstate[f] = "wait" /\ rsp_table[rsp_id[f]].in

\* the request of f was written and its entry inserted, and the entry is gone
EntryEvicted(f) ==
    /\ fstate[f] = "wait"
    /\ peer[rsp_id[f]] = "got"
    /\ current_request.id # rsp_id[f]
    /\ ~rsp_table[rsp_id[f]].in

AllResolved == \A f \in Submitters : Resolved(f)

\* C7 (as claimed): no entry outlives a second janitor tick, that is, every
\* entry is gone at the second tick after its creation.
C7_SecondTick == \A k \in Ids : rsp_table[k].in => rsp_table[k].scans <= 1

\* C7 (amended): with a silent peer and no failure, an entry is evicted at the
\* latest by the third tick after its creation, at an age of at most twice
\* request_timeout, and its caller is woken by the eviction; a future only
\* ever resolves with an empty result; the table is empty once all futures
\* have resolved; the error slot stays empty; and every future whose entry
\* is in the table eventually resolves.
C7_TimeoutSafe ==
    /\ \A k \in Ids : rsp_table[k].in =>
           /\ rsp_table[k].scans <= 2
           /\ rsp_table[k].age <= 2 * RequestTimeout
    /\ \A f \in Futs : EntryEvicted(f) => notified[f]
    /\ \A f \in Futs : Resolved(f) => result[f] = NoData
    /\ AllResolved => rsp_table = EmptyTable
    /\ error = "none"

C7_Timeout ==
    /\ []C7_TimeoutSafe
    /\ \A f \in Submitters : InTable(f) ~> Resolved(f)

\* one future has resolved empty after its request was written, while the
\* entry of the other has outlived two ticks
C7_Witness ==
    /\ Resolved(1) /\ result[1] = NoData /\ peer[rsp_id[1]] = "got"
    /\ InTable(2) /\ rsp_table[rsp_id[2]].scans = 2


\* ----------------------------------------------------------------- C8
\* An orderly shutdown: the handle is dropped, nothing fails.
ShutdownNext ==
    \/ Core(Submitters)
    \/ Closing(Submitters)
    \/ Time
    \/ HandleDrop

SpecShutdown == Init /\ [][ShutdownNext]_vars

InGrace == handle = "dropped" /\ at_drop.elapsed <= RequestTimeout

\* the reader reads the response to k
ReaderReads(k) == peer[k] = "sent" /\ peer'[k] = "read"

Stored(k) == rsp_table[k].in /\ rsp_table[k].data # NoData

\* the responses in flight at the drop that the reader reads within
\* request_timeout after the drop are stored
C8_Stored ==
    \A k \in at_drop.inflight :
        (InGrace /\ ReaderReads(k)) => rsp_table'[k].data = k

\* a stored response in flight at the drop leaves the table only to its caller
C8_Returned ==
    \A k \in at_drop.inflight :
        (InGrace /\ Stored(k) /\ ~rsp_table'[k].in) => result'[owner[k]] = k

\* the write half is shut down only when the grace timer has fired, at least
\* request_timeout after the drop
C8_AfterGrace ==
    (shut = "no" /\ shut' # "no") =>
        /\ handle = "dropped"
        /\ shutdown_wait = 0
        /\ at_drop.elapsed >= RequestTimeout

\* C8: after the handle is dropped, every response in flight at the drop that
\* reaches the reader within request_timeout after the drop is stored and
\* returned to its caller, and the write half is shut down only after the
\* writer's grace timer has fired.
C8_ShutdownGrace == [][C8_Stored /\ C8_Returned /\ C8_AfterGrace]_vars


\* ------------------------------------------------------------ C9, C10
\* More submitters than the queue holds, a peer that takes every request and
\* answers it; no failure, no shutdown.
BackPressureNext ==
    \/ Core(Submitters)
    \/ Time

\* Time passes and the janitor ticks; the writer task, the reader task and the
\* callers' tasks are scheduled when woken; the peer takes the bytes of a request again and
\* again (strong fairness: the write half is only writable while the writer
\* task is in its loop).
BackPressureFair ==
    /\ WF_vars(Time)
    /\ WF_vars(WriterStep)
    /\ WF_vars(ReaderStep)
    /\ SF_vars(\E n \in 1 .. BufLen : WriterWriteOk(n))
    /\ \A f \in Submitters : WF_vars(FutureStep(f))

SpecBackPressure == Init /\ [][BackPressureNext]_vars /\ BackPressureFair

FoundFull(f) == fstate[f] = "retry"

\* C9: the request queue never holds more than its capacity; a submitter
\* that found the queue full stays scheduled for a re-poll; a future resolves
\* only after its request was accepted; and under fair scheduling every
\* submitter that found the queue full eventually resolves.
C9_BackPressure ==
    /\ [](Len(req_queue) <= QueueCap)
    /\ [](\A f \in Futs : FoundFull(f) => notified[f])
    /\ [](\A f \in Futs : Resolved(f) => owner[rsp_id[f]] = f)
    /\ \A f \in Submitters : FoundFull(f) ~> Resolved(f)

\* the queue is full and the second submitter was turned away
C9_Witness ==
    /\ Len(req_queue) = QueueCap
    /\ FoundFull(2)
    /\ fstate[1] \in {"pushed", "wait"}


\* a poll of f whose push is rejected because the queue is full
Rejected(f) ==
    /\ HoldsRequest(f)
    /\ PushOutcome = "full"
    /\ req_id'[f] = next_req_id
    /\ next_req_id' = next_req_id + 1

\* C10 (as claimed): the rejected future keeps its request and yields
\* Pending, and the token it signals is not its own but another producer's.
C10_HandOff ==
    [][\A f \in Futs : Rejected(f) =>
           /\ fstate'[f] = "retry"
           /\ ~notified'[f]]_vars

\* C10 (amended): the rejected future keeps its request and yields Pending,
\* and the token it signals is its own, handed back by the push: its own task
\* is scheduled again, no other producer is woken, the queue is untouched.
C10_SelfWake ==
    [][\A f \in Futs : Rejected(f) =>
           /\ fstate'[f] = "retry"
           /\ notified'[f]
           /\ \A g \in Futs \ {f} : notified'[g] = notified[g]
           /\ req_queue' = req_queue]_vars

\* the first submitter was turned away by a queue holding the request of
\* the second, whose task is not scheduled
C10_Witness ==
    /\ FoundFull(1)
    /\ notified[1]
    /\ Len(req_queue) = QueueCap
    /\ Head(req_queue).waker = 2
    /\ ~notified[2]


\* ---------------------------------------------------------------- C11
\* a first poll of f: the future leaves the state in which it was created
FirstPoll(f) == fstate[f] = "new" /\ fstate'[f] # "new"

\* C11: a closed request queue stays closed, is_closed() reports it, and a
\* SendRequest first polled after the close resolves at once with an empty
\* result and adds nothing to the request queue or the pending-response table.
C11_ClosedFinal ==
    [][/\ is_closed => is_closed'
       /\ \A f \in Futs : (is_closed /\ FirstPoll(f)) =>
              /\ fstate'[f] = "done"
              /\ result'[f] = NoData
              /\ req_queue' = req_queue
              /\ rsp_table' = rsp_table]_vars

\* the queue was closed by a failure and the second future, first polled
\* after that, resolved empty without ever having been accepted
C11_Witness ==
    /\ is_closed
    /\ error # "none"
    /\ Resolved(2)
    /\ result[2] = NoData
    /\ owner[req_id[2]] # 2

\* ---------------------------------------------------------------- C12
\* C12: once the request queue is closed the next-correlation-id counter
\* keeps its value.
C12_NoIdAfterClose == [][is_closed => next_req_id' = next_req_id]_vars


\* ---------------------------------------------------------------- C13
\* accepted by the session and not yet resolved
Owned(f) == fstate[f] \in {"pushed", "wait"}

InQueue(k) == \E i \in 1 .. Len(req_queue) : req_queue[i].id = k
InWriter(k) == current_request.id = k
InRspTable(k) == rsp_table[k].in

\* the number of places that hold the request with id k
Places(k) ==
    (IF InQueue(k) THEN 1 ELSE 0) + (IF InWriter(k) THEN 1 ELSE 0)
        + (IF InRspTable(k) THEN 1 ELSE 0)

\* C13 (as claimed): every accepted, unresolved request is in exactly one of
\* the request queue and the pending-response table.
C13_Ownership ==
    \A f \in Futs : Owned(f) => (InQueue(req_id[f]) # InRspTable(req_id[f]))

\* C13 (amended): every accepted, unresolved request is in at most one of the
\* request queue, the writer's current-request slot and the pending-response
\* table; it is in none of them only after a cleanup or an eviction, and then
\* its caller has been woken or the reader is about to wake it.
C13_Custody ==
    \A f \in Futs : Owned(f) =>
        /\ Places(req_id[f]) <= 1
        /\ Places(req_id[f]) = 0 => (notified[f] \/ rwake = f)

\* one request is held by the writer while the next one waits in the queue
C13_Witness ==
    /\ Owned(1) /\ InWriter(req_id[1]) /\ current_offset > 0
    /\ Owned(2) /\ InQueue(req_id[2])


\* ---------------------------------------------------------------- C14
\* C14: a SendHandle or a SendRequest exists only after the first poll of the
\* writer, and start_transfer resolves to the handle only in a state where
\* the writer's wake token is published.
C14_HandleAfterWaker ==
    /\ []((handle # "none" \/ \E f \in Futs : fstate[f] # "none") => ~init)
    /\ [][(handle = "none" /\ handle' # "none") => write_waker]_vars

\* the handle exists, the token is published, a first SendRequest was made
C14_Witness ==
    /\ handle = "alive"
    /\ write_waker
    /\ ~init
    /\ fstate[1] = "new"


\* ---------------------------------------------------------------- C15
\* The session without failure, shutdown or passage of time; the writer task
\* and the callers' tasks run when woken, and the write half takes bytes
\* again and again.
WakeFair ==
    /\ WF_vars(WriterStep)
    /\ SF_vars(\E n \in 1 .. BufLen : WriterWriteOk(n))
    /\ \A f \in Submitters : WF_vars(FutureStep(f))

SpecWake == Init /\ [][Core(Submitters)]_vars /\ WakeFair

Queued(f) == Owned(f) /\ InQueue(req_id[f])

\* C15: a writer that is suspended while the queue holds a request whose
\* producer has signalled is scheduled or waits for the write half, and every
\* request accepted into the queue is eventually popped by the writer.
C15_NoLostWake ==
    /\ []((req_queue # <<>> /\ wpc = "idle" /\ \A f \in Futs : fstate[f] # "pushed")
              => (wnotified \/ wio # "none"))
    /\ \A f \in Submitters : Queued(f) ~> InWriter(req_id[f])

\* the producer's wake arrived while the writer was in its poll
C15_Witness ==
    /\ wpc = "loop"
    /\ wnotified
    /\ ~init
    /\ fstate[1] = "wait"
    /\ Queued(1)


\* ---------------------------------------------------------------- C16
\* Callers may drop their SendRequest; no failure, no shutdown.
CancelNext ==
    \/ Core(Submitters)
    \/ Time
    \/ \E f \in Submitters : FutureDrop(f)

SpecCancel == Init /\ [][CancelNext]_vars /\ BackPressureFair

Dropped(f) == fstate[f] = "dropped"

\* the entries left behind by the dropped future f
StaleEntries(f) == {k \in Ids : rsp_table[k].in /\ owner[k] = f}

\* nothing is pending any more: the table is empty and every submission made
\* has resolved or was dropped
Settled ==
    /\ rsp_table = EmptyTable
    /\ \A f \in Submitters : fstate[f] \in {"none", "done", "dropped"}

SpecOrder == Init /\ [][Core(Futs)]_vars

\* f's request went into the queue under the id it now carries
AcceptedAs(f) == fstate[f] \in {"pushed", "wait", "done"} /\ owner[req_id[f]] = f

\* f was first polled before g: ids are minted in the order of the polls
PolledBefore(f, g) == first_id[f] # NoId /\ first_id[f] < first_id[g]

\* C17: when f is first polled before g, the id under which f is finally
\* enqueued is smaller than the id under which g is finally enqueued, also
\* when f's first push met a full queue.
C17_SubmissionOrder ==
    \A f, g \in Futs :
        (PolledBefore(f, g) /\ AcceptedAs(f) /\ AcceptedAs(g)) => req_id[f] < req_id[g]

\* ---------------------------------------------------------------- C18
\* C18: whenever the error slot is non-empty the request queue is closed, and
\* every step that writes the error slot ends with the queue closed.
C18_ErrorImpliesClosed ==
    /\ [](error # "none" => is_closed)
    /\ [][error' # error => is_closed']_vars

\* both halves have failed; the slot holds an error and the queue is closed
C18_Witness ==
    /\ error # "none"
    /\ is_closed
    /\ WriterFailed
    /\ ReaderFailed


\* ---------------------------------------------------------------- C19
\* the reader signals the token it took from an entry
ReaderSignals(f) == rwake = f /\ rwake' = NoWaker

\* a woken caller polls for its response and finds its entry in the table
WokenPollFindsEntry(f) ==
    /\ fstate[f] = "wait"
    /\ notified[f]
    /\ fstate'[f] = "done"
    /\ rsp_table[rsp_id[f]].in

\* C19: an entry has lost its wake token exactly when it holds a payload;
\* when the reader signals a caller's token, that caller's entry (if still
\* there) holds the payload; and a woken caller that finds its entry in the
\* table gets the payload.
C19_StoreBeforeWake ==
    /\ [](\A k \in Ids : rsp_table[k].in =>
              (rsp_table[k].waker = NoWaker <=> rsp_table[k].data # NoData))
    /\ [][\A f \in Futs : ReaderSignals(f) =>
              \A k \in Ids : (owner[k] = f /\ rsp_table[k].in) => rsp_table[k].data = k]_vars
    /\ [][\A f \in Futs : WokenPollFindsEntry(f) => result'[f] = rsp_id[f]]_vars

\* the reader has stored the payload under the lock and is about to signal
C19_Witness ==
    /\ rwake = 1
    /\ fstate[1] = "wait"
    /\ ~notified[1]
    /\ rsp_table[rsp_id[1]].in
    /\ rsp_table[rsp_id[1]].data = rsp_id[1]


\* ---------------------------------------------------------------- C20
\* the positions written so far of the buffer of request k, in order
BytesOf(k) == SelectSeq(wire, LAMBDA b : b.id = k)

\* the request whose buffer holds the i-th byte on the wire, counted in
\* whole buffers
Block(i) == (i - 1) \div BufLen

\* what is on the wire is a sequence of whole buffers, each byte once and in
\* place, of different requests, followed at most by the part written so far
\* of the writer's current request
WireIntact ==
    /\ \A i \in 1 .. Len(wire) : wire[i].pos = ((i - 1) % BufLen) + 1
    /\ \A i, j \in 1 .. Len(wire) : (Block(i) = Block(j)) <=> (wire[i].id = wire[j].id)
    /\ current_request # NoRequest =>
           /\ Len(BytesOf(current_request.id)) = current_offset
           /\ current_offset > 0 => wire[Len(wire)].id = current_request.id
    /\ Len(wire) % BufLen # 0 => current_request.id = wire[Len(wire)].id

\* bytes are appended for the current request only, and a request becomes
\* current only as the head of the queue when the slot is free
WrittenInPopOrder ==
    /\ wire' # wire =>
           /\ current_request # NoRequest
           /\ Len(wire') > Len(wire)
           /\ \A i \in 1 .. Len(wire') :
                  IF i <= Len(wire) THEN wire'[i] = wire[i]
                  ELSE wire'[i].id = current_request.id
    /\ (current_request' # current_request /\ current_request' # NoRequest) =>
           /\ current_request = NoRequest
           /\ req_queue # <<>>
           /\ current_request' = Head(req_queue)

\* an entry appears in the table only when the whole buffer is on the wire
InsertedWhenWritten ==
    \A k \in Ids : (~rsp_table[k].in /\ rsp_table'[k].in) => Len(BytesOf(k)) = BufLen

\* C20: for every sequence of partial writes and Pending results, the bytes
\* the writer emits are the whole buffers of the requests in the order they
\* were popped, no byte repeated, skipped or interleaved, and the entry of a
\* request is inserted only after its whole buffer was written.
C20_PartialWrite ==
    /\ []WireIntact
    /\ [][WrittenInPopOrder /\ InsertedWhenWritten]_vars

\* after one whole request the second one is half written and the write half
\* has returned Pending
C20_Witness ==
    /\ Len(wire) = BufLen + 1
    /\ current_offset = 1
    /\ wpc = "idle"
    /\ wio = "write"


\* ---------------------------------------------------------------- C21
\* the writer has entered its failure path: the queue is closed and the
\* callers are woken (set_req_error may still be to come)
WriterFailing == wpc = "fail" \/ WriterFailed

\* fetch_error() returns Some
ErrorVisible == error # "none"

\* C21: a future that resolves with an empty result once the writer has
\* entered its write/flush failure path does so in a state where
\* fetch_error() returns an error.
C21_ErrorBeforeEmpty ==
    [][\A f \in Futs :
          (WriterFailing /\ Resolves(f) /\ result'[f] = NoData) => ErrorVisible]_vars


\* ---------------------------------------------------------------- C22
\* The session with a reader that may fail at any time, from the start on;
\* the write half does not fail and the handle, once returned, is kept.
StartupNext ==
    \/ Core(Submitters)
    \/ Closing(Submitters)
    \/ Time
    \/ ReaderErr

\* the task that awaits start_transfer, the writer task and the callers'
\* tasks run when they are scheduled; time passes
StartupFair ==
    /\ WF_vars(WaitPoll)
    /\ WF_vars(WriterStep)
    /\ WF_vars(Time)
    /\ \A f \in Submitters : WF_vars(FutureStep(f))

SpecStartup == Init /\ [][StartupNext]_vars /\ StartupFair

\* start_transfer has returned its SendHandle
Returned == handle # "none"

\* C22: under fair scheduling WaitWriteWaker eventually resolves to a
\* SendHandle, also when the reader fails and takes the writer's wake token
\* after the writer's first poll and before WaitWriteWaker has seen it.
C22_StartReturns == <>Returned


\* ---------------------------------------------------------------- C23
\* A peer that may send the response to a request more than once; time
\* passes; no failure, no shutdown, no drop.
DuplicateNext ==
    \/ Core(Submitters)
    \/ Time
    \/ \E k \in Ids : PeerDuplicate(k)

SpecDuplicate == Init /\ [][DuplicateNext]_vars

\* the entry of k holds the same payload after the step
PayloadKept(k) == rsp_table'[k].in /\ rsp_table'[k].data = rsp_table[k].data

\* C23: an entry in which the reader has stored a payload keeps it until the
\* poll of its caller that returns the payload: no step of the janitor or of
\* the reader removes the entry or replaces the payload.
C23_PayloadKept ==
    [][\A k \in Ids :
          (Stored(k) /\ ~PayloadKept(k)) => result'[owner[k]] = rsp_table[k].data]_vars


\* ---------------------------------------------------------------- C24
\* the polls of a SendRequest by its task; whether one more request is
\* submitted is up to the caller
FuturePolled(f) ==
    \/ FuturePushOk(f)
    \/ FutureWakeWriter(f)
    \/ FuturePushFull(f)
    \/ FuturePollWait(f)

\* The writer task and the callers' tasks run when woken, the reader runs,
\* and the write half takes bytes and completes a flush when it is asked
\* again and again.
FlushFair ==
    /\ WF_vars(WriterStep)
    /\ SF_vars(\E n \in 1 .. BufLen : WriterWriteOk(n))
    /\ SF_vars(WriterFlushOk)
    /\ WF_vars(ReaderStep)
    /\ \A f \in Submitters : WF_vars(FuturePolled(f))

\* No failure, no shutdown, no passage of time.
SpecFlush == Init /\ [][Core(Submitters)]_vars /\ FlushFair

\* bytes were written and not flushed, and the writer has nothing to write
Unflushed == dirty /\ req_queue = <<>> /\ current_request = NoRequest

\* C24: whenever request bytes are written and the queue is empty, a flush
\* of the write half is eventually completed, also after poll_flush returned
\* Pending and with no further request submitted.
C24_FlushCompletes == Unflushed ~> ~dirty


\* ---------------------------------------------------------------- C25
\* the push of id k was accepted into the queue
Accepted(k) == owner[k] # 0

FullyWritten(k) == Len(BytesOf(k)) = BufLen

\* the writer gives up the request it holds
Releases == current_request # NoRequest /\ current_request' = NoRequest

\* the writer arms its shutdown grace timer
ArmsGrace == shutdown_wait = NoSleep /\ shutdown_wait' # NoSleep

\* the send handle is dropped
Drops == handle = "alive" /\ handle' = "dropped"

\* C25: the drop of the send handle leaves the queue and the writer's current
\* request as they are; an accepted request is in the queue, or held by the
\* writer, or fully written; the writer gives a request up only by
\* registering it, fully written, with its caller's token; and the writer
\* arms its grace timer only when the queue is closed and empty, it holds no
\* request, and every accepted request is fully written.
C25_OrderlyClose ==
    /\ [][Drops => (req_queue' = req_queue /\ current_request' = current_request)]_vars
    /\ [](\A k \in Ids : Accepted(k) =>
              (InQueue(k) \/ InWriter(k) \/ FullyWritten(k)))
    /\ [][Releases =>
            /\ FullyWritten(current_request.id)
            /\ rsp_table'[current_request.id] = NewEntry(current_request.waker)]_vars
    /\ [][ArmsGrace =>
            /\ handle = "dropped"
            /\ is_closed
            /\ req_queue = <<>>
            /\ current_request = NoRequest
            /\ \A k \in Ids : Accepted(k) => FullyWritten(k)]_vars

\* the grace timer was just armed, one unit of time after the drop, and the
\* entry of the first request is younger than the drop: the request was still
\* queued or being written when the handle was dropped
C25_Witness ==
    /\ handle = "dropped"
    /\ at_drop.elapsed = 1
    /\ shutdown_wait = RequestTimeout
    /\ Accepted(req_id[1])
    /\ owner[req_id[1]] = 1
    /\ rsp_table[req_id[1]].in
    /\ rsp_table[req_id[1]].age = 0


\* ---------------------------------------------------------------- C26
\* A session that is torn down: the handle is dropped and the reader fails
\* (the only way it ends); the write half does not fail.
TeardownNext ==
    \/ Core(Submitters)
    \/ Closing(Submitters)
    \/ Time
    \/ ReaderErr
    \/ HandleDrop

\* the tasks run when scheduled and time passes
TeardownFair ==
    /\ WF_vars(Time)
    /\ WF_vars(WriterStep)
    /\ WF_vars(Closing(Submitters))

SpecTeardown == Init /\ [][TeardownNext]_vars /\ TeardownFair

\* the handle is dropped, the writer has resolved, the reader has terminated
TornDown == handle = "dropped" /\ wpc = "done" /\ ReaderFailed

\* C26: once the handle is dropped, the writer has resolved and the reader
\* has terminated (a condition that lasts), the janitor eventually
\* terminates: from some point on it scans the table no more.
C26_JanitorStops == <>[][TornDown => ~JanitorTick]_vars

=============================================================================
